---- MODULE Spec2Model ----
(***************************************************************************)
(* The tool-orchestration loop of the two MCP clients:                     *)
(*   - MCPStdioClient  (mcp_client_azure.py), substring-match detection,   *)
(*     language model reached through GptCall (gpt_utils.py);              *)
(*   - MCPOllamaClient (ollama/mcp_client_ollama.py), tagged-line          *)
(*     detection, language model reached through OllamaCall.               *)
(* Python strings are sequences of one-character strings, so that lower(), *)
(* strip(), split(), replace(), startswith(), "in" and join() are computed *)
(* as the interpreter computes them.                                       *)
(***************************************************************************)
EXTENDS Integers, Sequences, FiniteSets, TLC

(***************************************************************************)
(* Bounds of the model (not program constants).                            *)
(***************************************************************************)
\* number of vocabulary pieces concatenated into a first-generation text
MaxPieces == 2
\* number of tagged lines joined into a first-generation text
MaxLines == 3
\* cap on the length of the per-query log of call_tool invocations
MaxCallLog == 3
\* cap on the per-call count of time.sleep() calls of the gateway
MaxSleeps == 4

(***************************************************************************)
(* Program constants.                                                      *)
(***************************************************************************)
\* gpt_utils.py:62   while attempts < 3
MaxAttempts == 3
\* gpt_utils.py:60   seed = 42
BaseSeed == 42
\* gpt_utils.py:71   time.sleep(2)
BackoffSeconds == 2

(***************************************************************************)
(* String literals of the source, and the sample vocabulary.               *)
(***************************************************************************)
NotConnectedMsg ==
    <<"E","r","r","o","r",":"," ","N","o","t"," ","c","o","n","n","e","c","t","e","d"," ","t",
      "o"," ","a","n"," ","M","C","P"," ","s","e","r","v","e","r">>
ErrProcessingPrefix ==
    <<"E","r","r","o","r"," ","p","r","o","c","e","s","s","i","n","g"," ","q","u","e","r","y",
      ":"," ">>
AttrErrMsg ==
    <<"'","l","i","s","t","'"," ","o","b","j","e","c","t"," ","h","a","s"," ","n","o"," ","a",
      "t","t","r","i","b","u","t","e"," ","'","l","o","w","e","r","'">>
ToolSegHead == <<"\n","[","T","o","o","l",":"," ">>
ToolSegMid == <<"]","\n">>
ErrSegHead == <<"\n","[","E","r","r","o","r"," ","w","i","t","h"," ","t","o","o","l"," ">>
ErrSegMid == <<"]",":"," ">>
ResultHead ==
    <<"H","e","r","e","'","s"," ","t","h","e"," ","r","e","s","u","l","t"," ","f","r","o","m",
      " ">>
ResultMid == <<":"," ">>
ResultTail ==
    <<"."," ","P","l","e","a","s","e"," ","p","r","o","v","i","d","e"," ","a"," ","f","i","n",
      "a","l"," ","a","n","s","w","e","r"," ","b","a","s","e","d"," ","o","n"," ","t","h","i",
      "s"," ","i","n","f","o","r","m","a","t","i","o","n",".">>
SysHead ==
    <<"Y","o","u"," ","a","r","e"," ","a"," ","h","e","l","p","f","u","l"," ","a","s","s","i",
      "s","t","a","n","t"," ","t","h","a","t"," ","h","e","l","p","s"," ","u","s","e","r","s",
      " ","w","i","t","h"," ","q","u","e","r","i","e","s","."," ","\n","Y","o","u"," ","h","a",
      "v","e"," ","a","c","c","e","s","s"," ","t","o"," ","t","h","e"," ","f","o","l","l","o",
      "w","i","n","g"," ","t","o","o","l","s",":","\n">>
AzureSysTail ==
    <<"\n","\n","I","f"," ","y","o","u"," ","n","e","e","d"," ","t","o"," ","u","s","e"," ","a",
      "n","y"," ","o","f"," ","t","h","e","s","e"," ","t","o","o","l","s"," ","t","o"," ","a",
      "n","s","w","e","r"," ","t","h","e"," ","u","s","e","r","'","s"," ","q","u","e","s","t",
      "i","o","n",","," ","p","l","e","a","s","e"," ","s","p","e","c","i","f","y"," ","w","h",
      "i","c","h"," ","t","o","o","l"," ","y","o","u"," ","w","a","n","t"," ","t","o"," ","u",
      "s","e"," ","a","n","d"," ","w","h","a","t"," ","p","a","r","a","m","e","t","e","r","s",
      " ","y","o","u"," ","n","e","e","d",".">>
OllamaSysTail ==
    <<"\n","\n","I","f"," ","y","o","u"," ","n","e","e","d"," ","t","o"," ","u","s","e"," ","a",
      "n","y"," ","o","f"," ","t","h","e","s","e"," ","t","o","o","l","s"," ","t","o"," ","a",
      "n","s","w","e","r"," ","t","h","e"," ","u","s","e","r","'","s"," ","q","u","e","s","t",
      "i","o","n",","," ","p","l","e","a","s","e"," ","r","e","s","p","o","n","d"," ","w","i",
      "t","h",":","\n","T","O","O","L","_","R","E","Q","U","E","S","T",":"," ","<","t","o","o",
      "l","_","n","a","m","e",">","\n","P","A","R","A","M","E","T","E","R","S",":"," ","<","d",
      "e","s","c","r","i","b","e"," ","w","h","a","t"," ","p","a","r","a","m","e","t","e","r",
      "s"," ","y","o","u"," ","n","e","e","d",">","\n","\n","O","t","h","e","r","w","i","s","e",
      ","," ","p","r","o","v","i","d","e"," ","a"," ","d","i","r","e","c","t"," ","a","n","s",
      "w","e","r"," ","t","o"," ","t","h","e"," ","u","s","e","r","'","s"," ","q","u","e","s",
      "t","i","o","n",".">>
ToolRequestMarker == <<"T","O","O","L","_","R","E","Q","U","E","S","T",":">>
ParametersMarker == <<"P","A","R","A","M","E","T","E","R","S",":">>
OllamaNotRunningMsg ==
    <<"O","l","l","a","m","a"," ","s","e","r","v","e","r"," ","i","s"," ","n","o","t"," ","r",
      "u","n","n","i","n","g","."," ","P","l","e","a","s","e"," ","s","t","a","r","t"," ","i",
      "t"," ","w","i","t","h"," ","'","o","l","l","a","m","a"," ","s","e","r","v","e","'">>
OllamaConnectMsg ==
    <<"F","a","i","l","e","d"," ","t","o"," ","c","o","n","n","e","c","t"," ","t","o"," ","O",
      "l","l","a","m","a",":"," ","t","i","m","e","d"," ","o","u","t">>
OllamaApiErrMsg ==
    <<"O","l","l","a","m","a"," ","A","P","I"," ","e","r","r","o","r",":"," ","5","0","0"," ",
      "-"," ","o","o","p","s">>
EmptyListRepr == <<"[","]">>
NameAdd == <<"a","d","d">>
NameAddCap == <<"A","d","d">>
NameCompound == <<"c","o","m","p","o","u","n","d","_","i","n","t","e","r","e","s","t">>
DescAdd == <<"A","d","d"," ","t","w","o"," ","n","u","m","b","e","r","s">>
DescCompound ==
    <<"C","a","l","c","u","l","a","t","e"," ","c","o","m","p","o","u","n","d"," ","i","n","t",
      "e","r","e","s","t"," ","i","n","v","e","s","t","m","e","n","t"," ","r","e","t","u","r",
      "n","s",".">>
TxtFiller == <<"p">>
TxtSpace == <<" ">>
TxtNewline == <<"\n">>
ToolErrBoom == <<"b","o","o","m">>
ResultThree == <<"3">>
ResultBad == <<"b","a","d"," ","i","n","p","u","t">>
QueryHi == <<"h","i">>
QuerySum == <<"s","u","m">>
TxtOk == <<"o","k">>

(***************************************************************************)
(* Python string operations.                                               *)
(***************************************************************************)
UpperChars ==
    <<"A","B","C","D","E","F","G","H","I","J","K","L","M","N","O","P","Q","R","S","T","U","V",
      "W","X","Y","Z">>
LowerChars ==
    <<"a","b","c","d","e","f","g","h","i","j","k","l","m","n","o","p","q","r","s","t","u","v",
      "w","x","y","z">>

\* str.lower() on one character
LowerChar(c) ==
    IF \E i \in 1..Len(UpperChars) : UpperChars[i] = c
    THEN LowerChars[CHOOSE i \in 1..Len(UpperChars) : UpperChars[i] = c]
    ELSE c

\* str.lower()
Lower(s) == [i \in 1..Len(s) |-> LowerChar(s[i])]

\* s.startswith(p)
StartsWith(s, p) == Len(p) <= Len(s) /\ SubSeq(s, 1, Len(p)) = p

\* does needle occur in hay at position i
OccursAt(hay, needle, i) ==
    /\ i >= 1
    /\ i + Len(needle) - 1 <= Len(hay)
    /\ SubSeq(hay, i, i + Len(needle) - 1) = needle

\* needle in hay
Contains(hay, needle) == \E i \in 1..(Len(hay) + 1) : OccursAt(hay, needle, i)

\* the characters str.strip() removes
IsSpace(c) == c \in {" ", "\t", "\n", "\r"}

\* str.strip()
Strip(s) ==
    IF \A i \in 1..Len(s) : IsSpace(s[i])
    THEN <<>>
    ELSE LET first == CHOOSE i \in 1..Len(s) :
                          ~IsSpace(s[i]) /\ \A j \in 1..(i - 1) : IsSpace(s[j])
             last  == CHOOSE i \in 1..Len(s) :
                          ~IsSpace(s[i]) /\ \A j \in (i + 1)..Len(s) : IsSpace(s[j])
         IN  SubSeq(s, first, last)

\* s.split(sep) for a one-character separator: the fields between the
\* separators, always at least one field
Split(s, sep) ==
    LET seps == { i \in 1..Len(s) : s[i] = sep }
        n == Cardinality(seps) + 1
        SepAt(k) == IF k = 0 THEN 0
                    ELSE IF k = n THEN Len(s) + 1
                    ELSE CHOOSE p \in seps : Cardinality({ q \in seps : q < p }) = k - 1
    IN  [k \in 1..n |-> SubSeq(s, SepAt(k - 1) + 1, SepAt(k) - 1)]

\* position of the first occurrence of old in s at or after i, 0 if none
FindFrom(s, old, i) ==
    IF \E p \in i..Len(s) : OccursAt(s, old, p)
    THEN CHOOSE p \in i..Len(s) :
             OccursAt(s, old, p) /\ \A q \in i..(p - 1) : ~OccursAt(s, old, q)
    ELSE 0

\* s.replace(old, "") for a non-empty old: the non-overlapping occurrences
\* are removed left to right
RECURSIVE RemoveAllFrom(_, _, _)
RemoveAllFrom(s, old, i) ==
    IF FindFrom(s, old, i) = 0 THEN SubSeq(s, i, Len(s))
    ELSE SubSeq(s, i, FindFrom(s, old, i) - 1)
             \o RemoveAllFrom(s, old, FindFrom(s, old, i) + Len(old))

RemoveAll(s, old) == RemoveAllFrom(s, old, 1)

\* sep.join(parts)
RECURSIVE Join(_, _)
Join(sep, parts) ==
    IF parts = <<>> THEN <<>>
    ELSE IF Len(parts) = 1 THEN parts[1]
    ELSE parts[1] \o sep \o Join(sep, Tail(parts))

\* concatenation of a sequence of strings
RECURSIVE Concat(_)
Concat(parts) == IF parts = <<>> THEN <<>> ELSE parts[1] \o Concat(Tail(parts))

(***************************************************************************)
(* Python values held by the variables of process_query.                   *)
(***************************************************************************)
\* a str
PyStr(s) == [kind |-> "str", val |-> s]
\* the empty list [] that get_gpt_response returns when every attempt failed
EmptyResult == [kind |-> "list", val |-> <<>>]
\* None
PyNone == [kind |-> "none", val |-> <<>>]

\* bool(v), as used by "if text" and "if tool_name"
Truthy(v) == v.kind = "str" /\ v.val # <<>>

\* str(v), as used by an f-string
Format(v) ==
    IF v.kind = "str" THEN v.val
    ELSE IF v.kind = "list" THEN EmptyListRepr
    ELSE <<"N","o","n","e">>

(***************************************************************************)
(* Inputs: tool catalogs, queries, model texts, tool outcomes.             *)
(***************************************************************************)
\* server.py:6-9   the tool "add"
ToolAdd == [name |-> NameAdd, description |-> DescAdd]
\* the same tool under a capitalised name
ToolAddCap == [name |-> NameAddCap, description |-> DescAdd]
\* server.py:11-42   the tool "compound_interest"
ToolCompound == [name |-> NameCompound, description |-> DescCompound]

\* the catalogs list_tools() may return
Catalogs ==
    { <<>>, <<ToolAdd>>, <<ToolAddCap>>, <<ToolAdd, ToolCompound>>, <<ToolCompound, ToolAdd>> }

\* the queries typed by the user
Queries == { QueryHi, QuerySum }

\* the vocabulary the first-generation texts are built from
Pieces ==
    { NameAdd, NameCompound, ToolRequestMarker, TxtSpace, TxtNewline, TxtFiller }

\* every concatenation of at most MaxPieces pieces (the empty text included)
PieceTexts == { Concat(p) : p \in UNION { [1..n -> Pieces] : n \in 0..MaxPieces } }

\* lines in the format the system message of the tagged-line client asks for
LineRequestCompound ==
    <<"T","O","O","L","_","R","E","Q","U","E","S","T",":"," ","c","o","m","p","o","u","n","d",
      "_","i","n","t","e","r","e","s","t">>
LineRequestAdd == <<" ","T","O","O","L","_","R","E","Q","U","E","S","T",":"," ","A","d","d">>
LineParameters ==
    <<"P","A","R","A","M","E","T","E","R","S",":"," ","p","r","i","n","c","i","p","a","l","=",
      "5","0","0","0",","," ","a","n","n","u","a","l","_","r","a","t","e","=","0",".","0","6",
      ","," ","c","o","m","p","o","u","n","d","s","_","p","e","r","_","y","e","a","r","=","1",
      "2",","," ","y","e","a","r","s","=","1","3">>
LineParametersWord ==
    <<"P","A","R","A","M","E","T","E","R","S",":"," ","y","e","a","r","s","=","t","h","i","r",
      "t","e","e","n",","," ","p","r","i","n","c","i","p","a","l","=","7",","," ","r","a","t",
      "e","=","1","e","3",","," ","r","a","t","i","o","=","1",".","2",".","3">>

TaggedLines == { LineRequestCompound, LineRequestAdd, LineParameters, LineParametersWord }

\* every text of at most MaxLines such lines
TaggedTexts == { Join(TxtNewline, ls) : ls \in UNION { [1..n -> TaggedLines] : n \in 1..MaxLines } }

\* a free text naming a tool in passing
TxtUseAdd ==
    <<"I"," ","w","i","l","l"," ","u","s","e"," ","A","d","d"," ","t","o"," ","c","o","m","p",
      "u","t","e"," ","t","h","i","s">>

\* a tagged text with two TOOL_REQUEST lines around two PARAMETERS lines
TxtTwoRequests ==
    Join(TxtNewline, <<LineRequestCompound, LineParameters, LineParametersWord, LineRequestAdd>>)

FreeTexts == { TxtUseAdd, TxtTwoRequests }

\* the texts the backend answers the first generation with
Texts == PieceTexts \cup TaggedTexts \cup FreeTexts

\* the texts the backend answers the second (final) generation with
FinalTexts == { <<>>, TxtOk }

\* what session.call_tool returns: a result whose content is rendered into the reply
ToolResults ==
    { [isError |-> FALSE, content |-> ResultThree], [isError |-> TRUE, content |-> ResultBad] }

\* str(e) of the exceptions session.call_tool raises
ToolErrors == { ToolErrBoom }

\* str(e) of the exceptions call_ollama raises
OllamaErrors == { OllamaNotRunningMsg, OllamaConnectMsg, OllamaApiErrMsg }

(***************************************************************************)
(* State.                                                                  *)
(***************************************************************************)
VARIABLES
    client,            \* "azure" (MCPStdioClient) or "ollama" (MCPOllamaClient)
    session,           \* self.session is not None
    tools,             \* self.tools
    pc,                \* position of process_query
    messages,          \* local: messages
    response_content,  \* local: response_content
    final_text,        \* local: final_text
    curTool,           \* local: index in self.tools of the tool being called
    reply,             \* value returned by process_query
    outcome,           \* "none", "returned" or "raised": how process_query ended
    handler,           \* "none" or "outer": the except clause of lines 188/229 ran
    callLog,           \* history: the call_tool invocations of this query
    gwCalls,           \* history: gateway calls started by this query
    gwEmpty,           \* history: gateway calls of this query that returned []
    gpc,               \* gateway call: "off", "attempt", "returned", "raised"
    attempts,          \* gateway local: attempts
    sleeps,            \* history: the time.sleep() durations of this gateway call
    glog,              \* history: backend requests of this gateway call
    gresult,           \* value the gateway call returned
    gerr               \* str(e) of the exception the gateway call raised

vars ==
    <<client, session, tools, pc, messages, response_content, final_text, curTool, reply,
      outcome, handler, callLog, gwCalls, gwEmpty, gpc, attempts, sleeps, glog, gresult, gerr>>

clientVars == <<client, session, tools>>
historyVars == <<callLog, gwCalls, gwEmpty>>
queryVars == <<messages, response_content, final_text, curTool, reply, outcome, handler>>
gatewayVars == <<gpc, attempts, sleeps, glog, gresult, gerr>>

Init ==
    /\ client \in {"azure", "ollama"}
    /\ session = FALSE
    /\ tools = <<>>
    /\ pc = "idle"
    /\ messages = <<>>
    /\ response_content = PyNone
    /\ final_text = <<>>
    /\ curTool = 0
    /\ reply = PyNone
    /\ outcome = "none"
    /\ handler = "none"
    /\ callLog = <<>>
    /\ gwCalls = 0
    /\ gwEmpty = 0
    /\ gpc = "off"
    /\ attempts = 0
    /\ sleeps = <<>>
    /\ glog = <<>>
    /\ gresult = PyNone
    /\ gerr = <<>>

(***************************************************************************)
(* Helpers of process_query.                                               *)
(***************************************************************************)
\* "\n".join([f"- {tool.name}: {tool.description}" for tool in self.tools])
ToolsInfo(cat) ==
    Join(<<"\n">>,
         [i \in 1..Len(cat) |-> <<"-", " ">> \o cat[i].name \o <<":", " ">> \o cat[i].description])

\* the f-string system_message
SystemMessage(cl, cat) ==
    SysHead \o ToolsInfo(cat) \o (IF cl = "azure" THEN AzureSysTail ELSE OllamaSysTail)

\* the conversation opened without the system message
InitialMessages_NoSystem(cl, cat, q) == << [role |-> "user", content |-> PyStr(q)] >>

\* messages = [{"role": "system", ...}, {"role": "user", "content": query}]
InitialMessages(cl, cat, q) ==
    << [role |-> "system", content |-> PyStr(SystemMessage(cl, cat))],
       [role |-> "user", content |-> PyStr(q)] >>

\* the assistant turn with the first generation's text left out
ToolMessages_NoAssistantTurn(rc, name, toolResult) ==
    << [role |-> "user",
        content |-> PyStr(ResultHead \o name \o ResultMid \o toolResult \o ResultTail)] >>

\* the two messages appended after a tool call
ToolMessages(rc, name, toolResult) ==
    << [role |-> "assistant", content |-> rc],
       [role |-> "user",
        content |-> PyStr(ResultHead \o name \o ResultMid \o toolResult \o ResultTail)] >>

\* f"\n[Tool: {tool.name}]\n{tool_result}"
ToolSegment(name, toolResult) == PyStr(ToolSegHead \o name \o ToolSegMid \o toolResult)

\* f"\n[Error with tool {tool.name}]: {str(e)}"
ErrorSegment(name, err) == PyStr(ErrSegHead \o name \o ErrSegMid \o err)

\* f"\n{final_response}"
FinalSegment(finalResponse) == PyStr(<<"\n">> \o Format(finalResponse))

\* "\n".join([text for text in final_text if text])
JoinSegments(ft) ==
    LET kept == SelectSeq(ft, Truthy)
    IN  Join(<<"\n">>, [i \in 1..Len(kept) |-> kept[i].val])

\* tool.name.lower() in response_content.lower()
NameInText(name, text) == Contains(Lower(text), Lower(name))

\* the names a catalog may hold
ToolNames == { NameAdd, NameAddCap, NameCompound }

\* NameInText tabulated over the names and the texts the backend may return
NameInTextOf == [t \in Texts |-> [n \in ToolNames |-> NameInText(n, t)]]

\* the loop retrying the tool that has just failed instead of moving on
AzureNextMatch_Retry(from, text) ==
    IF from > 1 /\ NameInTextOf[text][tools[from - 1].name]
    THEN from - 1
    ELSE IF \E i \in from..Len(tools) : NameInTextOf[text][tools[i].name]
    THEN CHOOSE i \in from..Len(tools) :
             /\ NameInTextOf[text][tools[i].name]
             /\ \A j \in from..(i - 1) : ~NameInTextOf[text][tools[j].name]
    ELSE 0

\* the for loop of the substring client resumed at index from: the index of the
\* next tool whose name occurs in the text, 0 when the loop runs out
AzureNextMatch(from, text) ==
    IF \E i \in from..Len(tools) : NameInTextOf[text][tools[i].name]
    THEN CHOOSE i \in from..Len(tools) :
             /\ NameInTextOf[text][tools[i].name]
             /\ \A j \in from..(i - 1) : ~NameInTextOf[text][tools[j].name]
    ELSE 0

\* "TOOL_REQUEST:" in response_content
HasToolRequest(text) == Contains(text, ToolRequestMarker)

\* the marker looked for anywhere in the line, not at the start of the stripped line
RECURSIVE ToolNameFrom_AnyPosition(_, _, _)
ToolNameFrom_AnyPosition(lines, i, name) ==
    IF i > Len(lines) THEN name
    ELSE IF Contains(lines[i], ToolRequestMarker)
         THEN ToolNameFrom_AnyPosition(lines, i + 1,
                                       PyStr(Strip(RemoveAll(lines[i], ToolRequestMarker))))
         ELSE ToolNameFrom_AnyPosition(lines, i + 1, name)

\* the for loop keeping the first TOOL_REQUEST line instead of the last
RECURSIVE ToolNameFrom_FirstWins(_, _, _)
ToolNameFrom_FirstWins(lines, i, name) ==
    IF i > Len(lines) THEN name
    ELSE IF StartsWith(Strip(lines[i]), ToolRequestMarker) /\ name = PyNone
         THEN ToolNameFrom_FirstWins(lines, i + 1,
                                     PyStr(Strip(RemoveAll(lines[i], ToolRequestMarker))))
         ELSE ToolNameFrom_FirstWins(lines, i + 1, name)

\* the for loop over the lines: tool_name after the last line processed
RECURSIVE ToolNameFrom(_, _, _)
ToolNameFrom(lines, i, name) ==
    IF i > Len(lines) THEN name
    ELSE IF StartsWith(Strip(lines[i]), ToolRequestMarker)
         THEN ToolNameFrom(lines, i + 1, PyStr(Strip(RemoveAll(lines[i], ToolRequestMarker))))
         ELSE ToolNameFrom(lines, i + 1, name)

\* tool_name parsed from the text (None when no line carries the marker)
ParseToolName(text) == ToolNameFrom(Split(text, "\n"), 1, PyNone)

(***************************************************************************)
(* The PARAMETERS line of the tagged-line client: re.findall, int(), float()*)
(***************************************************************************)
DigitChars == <<"0","1","2","3","4","5","6","7","8","9">>

IsDigit(c) == \E i \in 1..Len(DigitChars) : DigitChars[i] = c

DigitValue(c) == (CHOOSE i \in 1..Len(DigitChars) : DigitChars[i] = c) - 1

IsLetter(c) ==
    \/ \E i \in 1..Len(LowerChars) : LowerChars[i] = c
    \/ \E i \in 1..Len(UpperChars) : UpperChars[i] = c

\* the regular expression class \w
IsWord(c) == IsLetter(c) \/ IsDigit(c) \/ c = "_"

\* an int
PyInt(n) == [kind |-> "int", val |-> n]

\* a float, as the decimal mantissa * 10^exponent it was written as, normalised
\* (no trailing zero in the mantissa) so that equal numbers are equal values
PyFloat(m, e) == [kind |-> "float", val |-> <<m, e>>]

\* digits, with single underscores allowed between two digits
IsDigitRun(s) ==
    /\ Len(s) > 0
    /\ \A i \in 1..Len(s) : IsDigit(s[i]) \/ s[i] = "_"
    /\ IsDigit(s[1])
    /\ IsDigit(s[Len(s)])
    /\ \A i \in 1..(Len(s) - 1) : ~(s[i] = "_" /\ s[i + 1] = "_")

\* the number a digit run denotes, continued from the value acc
RECURSIVE DigitsValue(_, _)
DigitsValue(s, acc) ==
    IF s = <<>> THEN acc
    ELSE IF s[1] = "_" THEN DigitsValue(Tail(s), acc)
    ELSE DigitsValue(Tail(s), 10 * acc + DigitValue(s[1]))

HasSign(s) == Len(s) > 0 /\ s[1] \in {"+", "-"}
Unsigned(s) == IF HasSign(s) THEN Tail(s) ELSE s
SignOf(s) == IF Len(s) > 0 /\ s[1] = "-" THEN -1 ELSE 1

\* int(s) does not raise ValueError
IsIntLiteral(s) == IsDigitRun(Unsigned(Strip(s)))

\* int(s)
IntValue(s) == SignOf(Strip(s)) * DigitsValue(Unsigned(Strip(s)), 0)

\* position of the first occurrence of one of the characters cs in s, 0 if none
FirstOf(s, cs) ==
    IF \E i \in 1..Len(s) : s[i] \in cs
    THEN CHOOSE i \in 1..Len(s) : s[i] \in cs /\ \A j \in 1..(i - 1) : s[j] \notin cs
    ELSE 0

\* the part of a float literal before the exponent, and the exponent part
MantissaPart(s) == IF FirstOf(s, {"e", "E"}) = 0 THEN s ELSE SubSeq(s, 1, FirstOf(s, {"e", "E"}) - 1)
ExponentPart(s) ==
    IF FirstOf(s, {"e", "E"}) = 0 THEN <<>> ELSE SubSeq(s, FirstOf(s, {"e", "E"}) + 1, Len(s))

\* the digits before and after the decimal point of a mantissa
WholePart(m) == IF FirstOf(m, {"."}) = 0 THEN m ELSE SubSeq(m, 1, FirstOf(m, {"."}) - 1)
FractionPart(m) == IF FirstOf(m, {"."}) = 0 THEN <<>> ELSE SubSeq(m, FirstOf(m, {"."}) + 1, Len(m))

\* float(s) does not raise ValueError, for the literals with digits: an
\* optional sign, digits with an optional decimal point, an optional exponent
IsFloatLiteral(s) ==
    LET u == Unsigned(Strip(s))
        m == MantissaPart(u)
        w == WholePart(m)
        f == FractionPart(m)
    IN  /\ (w # <<>> \/ f # <<>>)
        /\ (w = <<>> \/ IsDigitRun(w))
        /\ (f = <<>> \/ IsDigitRun(f))
        /\ (FirstOf(u, {"e", "E"}) # 0 => IsDigitRun(Unsigned(ExponentPart(u))))

\* the digits of s without the underscores
Digits(s) == SelectSeq(s, IsDigit)

\* mantissa and exponent with the trailing zeros of the mantissa removed
RECURSIVE Normalise(_, _)
Normalise(m, e) ==
    IF m = 0 THEN <<0, 0>>
    ELSE IF m % 10 = 0 THEN Normalise(m \div 10, e + 1)
    ELSE <<m, e>>

\* float(s)
FloatValue(s) ==
    LET u == Unsigned(Strip(s))
        m == MantissaPart(u)
        x == ExponentPart(u)
        mant == DigitsValue(WholePart(m) \o FractionPart(m), 0)
        ex == IF x = <<>> THEN 0 ELSE SignOf(x) * DigitsValue(Unsigned(x), 0)
        n == Normalise(mant, ex - Len(Digits(FractionPart(m))))
    IN  PyFloat(SignOf(Strip(s)) * n[1], n[2])

\* the conversion with float() tried for every value, whether or not it holds "."
Coerce_AlwaysFloat(value) ==
    LET v == Strip(value)
    IN  IF IsFloatLiteral(v) THEN FloatValue(v) ELSE PyStr(v)

\* lines 185-194: the stripped value as an int when it holds no ".", as a
\* float when it does, and kept as a string when the conversion raises
Coerce(value) ==
    LET v == Strip(value)
    IN  IF ~Contains(v, <<".">>)
        THEN IF IsIntLiteral(v) THEN PyInt(IntValue(v)) ELSE PyStr(v)
        ELSE IF IsFloatLiteral(v) THEN FloatValue(v) ELSE PyStr(v)

\* end of the longest run of \w characters that starts at p (p - 1 when
\* s[p] is not one)
WordRunEnd(s, p) ==
    IF \E i \in p..Len(s) : ~IsWord(s[i])
    THEN (CHOOSE i \in p..Len(s) : ~IsWord(s[i]) /\ \A j \in p..(i - 1) : IsWord(s[j])) - 1
    ELSE Len(s)

\* end of the longest run of characters other than a comma that starts at p
ValueRunEnd(s, p) ==
    IF \E i \in p..Len(s) : s[i] = ","
    THEN (CHOOSE i \in p..Len(s) : s[i] = "," /\ \A j \in p..(i - 1) : s[j] # ",") - 1
    ELSE Len(s)

\* the regular expression (\w+)=([^,]+) matches at position p of s
MatchesAt(s, p) ==
    LET k == WordRunEnd(s, p)
    IN  k >= p /\ k + 2 <= Len(s) /\ s[k + 1] = "=" /\ s[k + 2] # ","

\* re.findall(r'(\w+)=([^,]+)', s) from position p on: the (key, value) pairs
\* of the non-overlapping matches, leftmost first
RECURSIVE FindAllFrom(_, _)
FindAllFrom(s, p) ==
    IF ~\E q \in p..Len(s) : MatchesAt(s, q) THEN <<>>
    ELSE LET q == CHOOSE q \in p..Len(s) :
                      MatchesAt(s, q) /\ \A r \in p..(q - 1) : ~MatchesAt(s, r)
             k == WordRunEnd(s, q)
             v == ValueRunEnd(s, k + 2)
         IN  << <<SubSeq(s, q, k), SubSeq(s, k + 2, v)>> >> \o FindAllFrom(s, v + 1)

\* the dict {}
EmptyDict == <<>>

\* parameters[key] = value on a dict kept as a sequence of (key, value) pairs
\* in insertion order
DictSet(d, key, value) ==
    IF \E i \in 1..Len(d) : d[i][1] = key
    THEN [i \in 1..Len(d) |-> IF d[i][1] = key THEN <<key, value>> ELSE d[i]]
    ELSE Append(d, <<key, value>>)

\* the loop over param_matches with the ValueError branch dropping the key
\* instead of keeping the text
RECURSIVE StoreMatches_DropUncoerced(_, _)
StoreMatches_DropUncoerced(d, ms) ==
    IF ms = <<>> THEN d
    ELSE IF Coerce(ms[1][2]).kind = "str"
         THEN StoreMatches_DropUncoerced(d, Tail(ms))
         ELSE StoreMatches_DropUncoerced(DictSet(d, ms[1][1], Coerce(ms[1][2])), Tail(ms))

\* the loop over param_matches
RECURSIVE StoreMatches(_, _)
StoreMatches(d, ms) ==
    IF ms = <<>> THEN d
    ELSE StoreMatches(DictSet(d, ms[1][1], Coerce(ms[1][2])), Tail(ms))

\* the for loop over the lines: parameters after the last line processed
RECURSIVE ParametersFrom(_, _, _)
ParametersFrom(lines, i, d) ==
    IF i > Len(lines) THEN d
    ELSE IF StartsWith(Strip(lines[i]), ToolRequestMarker)
         THEN ParametersFrom(lines, i + 1, d)
    ELSE IF StartsWith(Strip(lines[i]), ParametersMarker)
         THEN ParametersFrom(lines, i + 1,
                  StoreMatches(d, FindAllFrom(Strip(RemoveAll(lines[i], ParametersMarker)), 1)))
    ELSE ParametersFrom(lines, i + 1, d)

\* parameters parsed from the text
ParseParameters(text) == ParametersFrom(Split(text, "\n"), 1, EmptyDict)

\* the lookup falling back to the first tool of the catalog when no name matches
LookupTool_Fallback(name) ==
    IF \E i \in 1..Len(tools) : Lower(tools[i].name) = Lower(name)
    THEN CHOOSE i \in 1..Len(tools) :
             /\ Lower(tools[i].name) = Lower(name)
             /\ \A j \in 1..(i - 1) : Lower(tools[j].name) # Lower(name)
    ELSE IF tools # <<>> THEN 1 ELSE 0

\* the lookup loop: index of the first tool with tool.name.lower() == tool_name.lower()
LookupTool(name) ==
    IF \E i \in 1..Len(tools) : Lower(tools[i].name) = Lower(name)
    THEN CHOOSE i \in 1..Len(tools) :
             /\ Lower(tools[i].name) = Lower(name)
             /\ \A j \in 1..(i - 1) : Lower(tools[j].name) # Lower(name)
    ELSE 0

\* the decision of the tagged-line client, before the catalog lookup, tabulated
\* over the texts the backend may return: the marker test, tool_name and parameters
ToolRequestOf ==
    [t \in Texts |-> [marked |-> HasToolRequest(t), name |-> ParseToolName(t),
                      parameters |-> IF HasToolRequest(t) THEN ParseParameters(t) ELSE EmptyDict]]

\* the tool the tagged-line client decides to call for a text, 0 for none
OllamaToolFor(text) ==
    IF ~ToolRequestOf[text].marked THEN 0
    ELSE IF Truthy(ToolRequestOf[text].name) THEN LookupTool(ToolRequestOf[text].name.val)
    ELSE 0

(***************************************************************************)
(* connect_to_server and chat_loop.                                        *)
(***************************************************************************)
\* connect_to_server succeeding: the session is set and the catalog fetched
ConnectToServer(cat) ==
    /\ pc = "idle"
    /\ ~session
    /\ session' = TRUE
    /\ tools' = cat
    /\ UNCHANGED <<client, pc, queryVars, historyVars, gatewayVars>>

\* chat_loop: the reply is printed and the locals of process_query are gone
ChatLoopNext ==
    /\ pc = "done"
    /\ pc' = "idle"
    /\ messages' = <<>>
    /\ response_content' = PyNone
    /\ final_text' = <<>>
    /\ curTool' = 0
    /\ reply' = PyNone
    /\ outcome' = "none"
    /\ handler' = "none"
    /\ callLog' = <<>>
    /\ gwCalls' = 0
    /\ gwEmpty' = 0
    /\ UNCHANGED <<clientVars, gatewayVars>>

(***************************************************************************)
(* Steps shared by the two process_query methods.                          *)
(***************************************************************************)
\* a gateway call is entered: call_gpt / call_ollama
StartGateway ==
    /\ gpc' = "attempt"
    /\ attempts' = 0
    /\ sleeps' = <<>>
    /\ glog' = <<>>
    /\ gresult' = PyNone
    /\ gerr' = <<>>
    /\ gwCalls' = gwCalls + 1

\* the caller has taken the outcome of the gateway call: its locals are gone
EndGateway ==
    /\ gpc' = "off"
    /\ attempts' = 0
    /\ sleeps' = <<>>
    /\ glog' = <<>>
    /\ gresult' = PyNone
    /\ gerr' = <<>>

\* return "\n".join([text for text in final_text if text])
Return(ft) ==
    /\ reply' = PyStr(JoinSegments(ft))
    /\ outcome' = "returned"
    /\ pc' = "done"

\* the except clause of process_query: return f"Error processing query: {str(e)}"
OuterHandler(err) ==
    /\ handler' = "outer"
    /\ reply' = PyStr(ErrProcessingPrefix \o err)
    /\ outcome' = "returned"
    /\ pc' = "done"

\* the messages are built and the first gateway call is entered
FirstGeneration(q) ==
    /\ messages' = InitialMessages(client, tools, q)
    /\ pc' = "first_gen"
    /\ StartGateway
    /\ UNCHANGED <<response_content, final_text, curTool, reply, outcome, handler, callLog,
                   gwEmpty>>

\* the session check dropped: the first generation is entered without a session
NotConnected_Dropped == \E q \in Queries : FirstGeneration(q)

\* if not self.session: return "Error: Not connected to an MCP server"
NotConnected ==
    /\ reply' = PyStr(NotConnectedMsg)
    /\ outcome' = "returned"
    /\ pc' = "done"
    /\ UNCHANGED <<messages, response_content, final_text, curTool, handler, historyVars,
                   gatewayVars>>

(***************************************************************************)
(* GptCall.get_gpt_response (gpt_utils.py).                                *)
(***************************************************************************)
\* the loop condition off by one: while attempts <= 3
GptLoopCond_OffByOne(a) == a <= MaxAttempts

\* while attempts < 3
GptLoopCond(a) == a < MaxAttempts

\* the texts the backend may answer the pending request with
BackendTexts == IF Len(messages) = 2 THEN Texts ELSE FinalTexts

\* the backoff placed so that it also runs on the successful attempt
GptAttemptOk_SleepsToo(t) ==
    /\ client = "azure"
    /\ gpc = "attempt"
    /\ GptLoopCond(attempts)
    /\ Len(sleeps) < MaxSleeps
    /\ glog' = Append(glog, [seed |-> BaseSeed + attempts, ok |-> TRUE, text |-> t])
    /\ sleeps' = Append(sleeps, BackoffSeconds)
    /\ gresult' = PyStr(t)
    /\ gpc' = "returned"
    /\ UNCHANGED <<clientVars, pc, queryVars, historyVars, attempts, gerr>>

\* an attempt succeeds: return response.choices[0].message.content
GptAttemptOk(t) ==
    /\ client = "azure"
    /\ gpc = "attempt"
    /\ GptLoopCond(attempts)
    /\ glog' = Append(glog, [seed |-> BaseSeed + attempts, ok |-> TRUE, text |-> t])
    /\ gresult' = PyStr(t)
    /\ gpc' = "returned"
    /\ UNCHANGED <<clientVars, pc, queryVars, historyVars, attempts, sleeps, gerr>>

\* every attempt issued with the base seed: seed=seed instead of seed + attempts
GptAttemptFail_SameSeed ==
    /\ client = "azure"
    /\ gpc = "attempt"
    /\ GptLoopCond(attempts)
    /\ Len(sleeps) < MaxSleeps
    /\ glog' = Append(glog, [seed |-> BaseSeed, ok |-> FALSE, text |-> <<>>])
    /\ sleeps' = Append(sleeps, BackoffSeconds)
    /\ attempts' = attempts + 1
    /\ IF GptLoopCond(attempts + 1)
       THEN UNCHANGED <<gpc, gresult, gwEmpty>>
       ELSE gpc' = "returned" /\ gresult' = EmptyResult /\ gwEmpty' = gwEmpty + 1
    /\ UNCHANGED <<clientVars, pc, queryVars, callLog, gwCalls, gerr>>

\* an attempt fails: print(e); time.sleep(2); attempts += 1; after the last
\* attempt the loop ends and [] is returned
GptAttemptFail ==
    /\ client = "azure"
    /\ gpc = "attempt"
    /\ GptLoopCond(attempts)
    /\ Len(sleeps) < MaxSleeps
    /\ glog' = Append(glog, [seed |-> BaseSeed + attempts, ok |-> FALSE, text |-> <<>>])
    /\ sleeps' = Append(sleeps, BackoffSeconds)
    /\ attempts' = attempts + 1
    /\ IF GptLoopCond(attempts + 1)
       THEN UNCHANGED <<gpc, gresult, gwEmpty>>
       ELSE gpc' = "returned" /\ gresult' = EmptyResult /\ gwEmpty' = gwEmpty + 1
    /\ UNCHANGED <<clientVars, pc, queryVars, callLog, gwCalls, gerr>>

(***************************************************************************)
(* OllamaCall.call_ollama (ollama/ollama_utils.py).                        *)
(***************************************************************************)
\* status 200: return data['message']['content']
OllamaCallOk(t) ==
    /\ client = "ollama"
    /\ gpc = "attempt"
    /\ glog' = Append(glog, [seed |-> 0, ok |-> TRUE, text |-> t])
    /\ gresult' = PyStr(t)
    /\ gpc' = "returned"
    /\ UNCHANGED <<clientVars, pc, queryVars, historyVars, attempts, sleeps, gerr>>

\* the server is not running, the request fails or the status is not 200: raise
OllamaCallFail(err) ==
    /\ client = "ollama"
    /\ gpc = "attempt"
    /\ glog' = Append(glog, [seed |-> 0, ok |-> FALSE, text |-> <<>>])
    /\ gerr' = err
    /\ gpc' = "raised"
    /\ UNCHANGED <<clientVars, pc, queryVars, historyVars, attempts, sleeps, gresult>>

(***************************************************************************)
(* MCPStdioClient.process_query (mcp_client_azure.py).                     *)
(***************************************************************************)
AzureProcessQuery(q) ==
    /\ client = "azure"
    /\ pc = "idle"
    /\ IF ~session THEN NotConnected ELSE FirstGeneration(q)
    /\ UNCHANGED clientVars

\* the for loop is resumed at index from: the next matching tool is called, or
\* the loop runs out and the segments are joined and returned
AzureResumeLoop(from, text, ft) ==
    LET i == AzureNextMatch(from, text)
    IN  IF i = 0
        THEN Return(ft) /\ curTool' = 0
        ELSE pc' = "call_tool" /\ curTool' = i /\ UNCHANGED <<reply, outcome>>

\* call_gpt has returned: final_text = [response_content], then the for loop;
\* on [] the first .lower() raises AttributeError, caught at line 188
AzureFirstGenerationDone ==
    /\ client = "azure"
    /\ pc = "first_gen"
    /\ gpc = "returned"
    /\ response_content' = gresult
    /\ final_text' = <<gresult>>
    /\ IF tools # <<>> /\ gresult.kind # "str"
       THEN OuterHandler(AttrErrMsg) /\ UNCHANGED curTool
       ELSE AzureResumeLoop(1, gresult.val, <<gresult>>) /\ UNCHANGED handler
    /\ EndGateway
    /\ UNCHANGED <<clientVars, messages, historyVars>>

\* session.call_tool(tool.name, {}) returns: the tool segment and the two
\* messages are appended and the second gateway call is entered
AzureCallToolOk(r) ==
    /\ client = "azure"
    /\ pc = "call_tool"
    /\ Len(callLog) < MaxCallLog
    /\ callLog' = Append(callLog, [name |-> tools[curTool].name, parameters |-> EmptyDict,
                                  ok |-> TRUE, isError |-> r.isError])
    /\ final_text' = Append(final_text, ToolSegment(tools[curTool].name, r.content))
    /\ messages' = messages \o ToolMessages(response_content, tools[curTool].name, r.content)
    /\ pc' = "final_gen"
    /\ StartGateway
    /\ UNCHANGED <<clientVars, response_content, curTool, reply, outcome, handler, gwEmpty>>

\* the failing tool struck off self.tools in the except branch
AzureCallToolFail_RemovesTool(err) ==
    /\ client = "azure"
    /\ pc = "call_tool"
    /\ Len(callLog) < MaxCallLog
    /\ callLog' = Append(callLog, [name |-> tools[curTool].name, parameters |-> EmptyDict,
                                  ok |-> FALSE, isError |-> FALSE])
    /\ final_text' = Append(final_text, ErrorSegment(tools[curTool].name, err))
    /\ tools' = SelectSeq(tools, LAMBDA t : t.name # tools[curTool].name)
    /\ AzureResumeLoop(curTool + 1, response_content.val, final_text')
    /\ UNCHANGED <<client, session, messages, response_content, handler, gwCalls, gwEmpty,
                   gatewayVars>>

\* session.call_tool raises: the error segment is appended and the for loop
\* goes on with the next tool
AzureCallToolFail(err) ==
    /\ client = "azure"
    /\ pc = "call_tool"
    /\ Len(callLog) < MaxCallLog
    /\ callLog' = Append(callLog, [name |-> tools[curTool].name, parameters |-> EmptyDict,
                                  ok |-> FALSE, isError |-> FALSE])
    /\ final_text' = Append(final_text, ErrorSegment(tools[curTool].name, err))
    /\ AzureResumeLoop(curTool + 1, response_content.val, final_text')
    /\ UNCHANGED <<clientVars, messages, response_content, handler, gwCalls, gwEmpty,
                   gatewayVars>>

\* the break after the final answer missing: the for loop goes on with the
\* next tool named in the text
AzureFinalGenerationDone_NoBreak ==
    /\ client = "azure"
    /\ pc = "final_gen"
    /\ gpc = "returned"
    /\ final_text' = Append(final_text, FinalSegment(gresult))
    /\ AzureResumeLoop(curTool + 1, response_content.val, final_text')
    /\ EndGateway
    /\ UNCHANGED <<clientVars, messages, response_content, handler, historyVars>>

\* the second call_gpt has returned: its text is appended, break, return
AzureFinalGenerationDone ==
    /\ client = "azure"
    /\ pc = "final_gen"
    /\ gpc = "returned"
    /\ final_text' = Append(final_text, FinalSegment(gresult))
    /\ Return(final_text')
    /\ curTool' = 0
    /\ EndGateway
    /\ UNCHANGED <<clientVars, messages, response_content, handler, historyVars>>

(***************************************************************************)
(* MCPOllamaClient.process_query (ollama/mcp_client_ollama.py).            *)
(***************************************************************************)
OllamaProcessQuery(q) ==
    /\ client = "ollama"
    /\ pc = "idle"
    /\ IF ~session THEN NotConnected ELSE FirstGeneration(q)
    /\ UNCHANGED clientVars

\* call_ollama has returned: final_text = [response_content], the text is
\* parsed and the tool looked up; without a tool the segments are returned
OllamaFirstGenerationDone ==
    /\ client = "ollama"
    /\ pc = "first_gen"
    /\ gpc = "returned"
    /\ response_content' = gresult
    /\ final_text' = <<gresult>>
    /\ LET i == OllamaToolFor(gresult.val)
       IN  IF i = 0
           THEN Return(<<gresult>>) /\ curTool' = 0
           ELSE pc' = "call_tool" /\ curTool' = i /\ UNCHANGED <<reply, outcome>>
    /\ EndGateway
    /\ UNCHANGED <<clientVars, messages, handler, historyVars>>

\* the first call_ollama raised: caught at line 229
OllamaFirstGenerationRaised ==
    /\ client = "ollama"
    /\ pc = "first_gen"
    /\ gpc = "raised"
    /\ OuterHandler(gerr)
    /\ EndGateway
    /\ UNCHANGED <<clientVars, messages, response_content, final_text, curTool, historyVars>>

\* session.call_tool(tool_to_use.name, parameters) returns
OllamaCallToolOk(r) ==
    /\ client = "ollama"
    /\ pc = "call_tool"
    /\ Len(callLog) < MaxCallLog
    /\ callLog' = Append(callLog, [name |-> tools[curTool].name,
                                  parameters |-> ToolRequestOf[response_content.val].parameters,
                                  ok |-> TRUE, isError |-> r.isError])
    /\ final_text' = Append(final_text, ToolSegment(tools[curTool].name, r.content))
    /\ messages' = messages \o ToolMessages(response_content, tools[curTool].name, r.content)
    /\ pc' = "final_gen"
    /\ StartGateway
    /\ UNCHANGED <<clientVars, response_content, curTool, reply, outcome, handler, gwEmpty>>

\* the inner try/except missing: the exception reaches the handler of line 229
OllamaCallToolFail_Uncaught(err) ==
    /\ client = "ollama"
    /\ pc = "call_tool"
    /\ Len(callLog) < MaxCallLog
    /\ callLog' = Append(callLog, [name |-> tools[curTool].name,
                                  parameters |-> ToolRequestOf[response_content.val].parameters,
                                  ok |-> FALSE, isError |-> FALSE])
    /\ OuterHandler(err)
    /\ curTool' = 0
    /\ UNCHANGED <<clientVars, messages, response_content, final_text, gwCalls, gwEmpty,
                   gatewayVars>>

\* session.call_tool raises: caught at line 222, error segment, return
OllamaCallToolFail(err) ==
    /\ client = "ollama"
    /\ pc = "call_tool"
    /\ Len(callLog) < MaxCallLog
    /\ callLog' = Append(callLog, [name |-> tools[curTool].name,
                                  parameters |-> ToolRequestOf[response_content.val].parameters,
                                  ok |-> FALSE, isError |-> FALSE])
    /\ final_text' = Append(final_text, ErrorSegment(tools[curTool].name, err))
    /\ Return(final_text')
    /\ curTool' = 0
    /\ UNCHANGED <<clientVars, messages, response_content, handler, gwCalls, gwEmpty,
                   gatewayVars>>

\* the second call_ollama has returned: its text is appended, return
OllamaFinalGenerationDone ==
    /\ client = "ollama"
    /\ pc = "final_gen"
    /\ gpc = "returned"
    /\ final_text' = Append(final_text, FinalSegment(gresult))
    /\ Return(final_text')
    /\ curTool' = 0
    /\ EndGateway
    /\ UNCHANGED <<clientVars, messages, response_content, handler, historyVars>>

\* the second call_ollama raised: caught at line 222 like a tool failure
OllamaFinalGenerationRaised ==
    /\ client = "ollama"
    /\ pc = "final_gen"
    /\ gpc = "raised"
    /\ final_text' = Append(final_text, ErrorSegment(tools[curTool].name, gerr))
    /\ Return(final_text')
    /\ curTool' = 0
    /\ EndGateway
    /\ UNCHANGED <<clientVars, messages, response_content, handler, historyVars>>

(***************************************************************************)
(* Specification.                                                          *)
(***************************************************************************)
Next ==
    \/ \E cat \in Catalogs : ConnectToServer(cat)
    \/ ChatLoopNext
    \/ \E q \in Queries : AzureProcessQuery(q)
    \/ \E t \in BackendTexts : GptAttemptOk(t)
    \/ GptAttemptFail
    \/ AzureFirstGenerationDone
    \/ \E r \in ToolResults : AzureCallToolOk(r)
    \/ \E e \in ToolErrors : AzureCallToolFail(e)
    \/ AzureFinalGenerationDone
    \/ \E q \in Queries : OllamaProcessQuery(q)
    \/ \E t \in BackendTexts : OllamaCallOk(t)
    \/ \E e \in OllamaErrors : OllamaCallFail(e)
    \/ OllamaFirstGenerationDone
    \/ OllamaFirstGenerationRaised
    \/ \E r \in ToolResults : OllamaCallToolOk(r)
    \/ \E e \in ToolErrors : OllamaCallToolFail(e)
    \/ OllamaFinalGenerationDone
    \/ OllamaFinalGenerationRaised

Spec == Init /\ [][Next]_vars

\* every enabled step of a query is eventually taken: each backend call and
\* each tool call returns or fails
FairSpec == Spec /\ WF_vars(Next)

TypeOK ==
    /\ client \in {"azure", "ollama"}
    /\ session \in BOOLEAN
    /\ tools \in Catalogs
    /\ pc \in {"idle", "first_gen", "call_tool", "final_gen", "done"}
    /\ outcome \in {"none", "returned", "raised"}
    /\ handler \in {"none", "outer"}
    /\ gpc \in {"off", "attempt", "returned", "raised"}
    /\ attempts \in 0..MaxAttempts
    /\ gwCalls \in 0..2
    /\ curTool \in 0..Len(tools)

(***************************************************************************)
(* Properties.                                                             *)
(***************************************************************************)
\* the backend requests of the pending gateway call that failed
FailedAttempts == { i \in 1..Len(glog) : ~glog[i].ok }

\* the call_tool invocations of this query that raised
FailedCalls == { i \in 1..Len(callLog) : ~callLog[i].ok }

\* the names of the catalog
CatalogNames == { tools[i].name : i \in 1..Len(tools) }

\* the tool names that occur in a text, compared case-insensitively, and
\* whether no line of it, stripped, starts with the marker: tabulated over the
\* texts the backend may return
NamesIn == [t \in Texts |-> { n \in ToolNames : Contains(Lower(t), Lower(n)) }]
NoMarkerLine ==
    [t \in Texts |-> \A k \in 1..Len(Split(t, "\n")) :
                         ~StartsWith(Strip(Split(t, "\n")[k]), ToolRequestMarker)]

\* no tool is detected in a text: no catalog name occurs in it (substring
\* client); no line, stripped, starts with the marker (tagged-line client)
NoToolDetected(text) ==
    IF client = "azure"
    THEN \A i \in 1..Len(tools) : tools[i].name \notin NamesIn[text]
    ELSE NoMarkerLine[text]

\* C1: get_gpt_response never makes more than 3 backend attempts and never
\* raises; when every attempt has failed and the call has returned, exactly 3
\* attempts were made and the value returned is the empty-result sentinel [].
C1_AllFailThreeAttempts ==
    client = "azure" =>
        /\ Len(glog) <= 3
        /\ gpc # "raised"
        /\ (gpc = "returned" /\ FailedAttempts = 1..Len(glog)) =>
               (Len(glog) = 3 /\ gresult = EmptyResult)

C1_Witness ==
    /\ client = "azure"
    /\ gpc = "returned"
    /\ Len(glog) = 3
    /\ FailedAttempts = {1, 2, 3}
    /\ gresult = EmptyResult

\* C2: when the backend succeeds at attempt k+1 after failing k times, k is
\* 0, 1 or 2, the call returns at once with the text of attempt k+1, k+1
\* attempts were made and exactly k inter-attempt delays were slept.
C2_FailKThenSucceed ==
    client = "azure" =>
        \A j \in 1..Len(glog) :
            glog[j].ok =>
                /\ FailedAttempts = 1..(j - 1)
                /\ (j - 1) \in {0, 1, 2}
                /\ gpc = "returned"
                /\ Len(glog) = j
                /\ gresult = PyStr(glog[j].text)
                /\ Len(sleeps) = j - 1

C2_Witness ==
    /\ client = "azure"
    /\ gpc = "returned"
    /\ Len(glog) = 3
    /\ FailedAttempts = {1, 2}
    /\ glog[3].ok
    /\ glog[3].text # <<>>
    /\ gresult = PyStr(glog[3].text)
    /\ Len(sleeps) = 2

\* C3: in both clients, when call_tool has raised, process_query does not
\* raise to its caller and the reply it returns contains an error segment
\* naming the tool that failed.
C3_ToolFailureBecomesErrorSegment ==
    \A i \in FailedCalls :
        /\ outcome # "raised"
        /\ pc = "done" =>
               /\ outcome = "returned"
               /\ reply.kind = "str"
               /\ Contains(reply.val, ErrSegHead \o callLog[i].name \o ErrSegMid)

C3_Witness ==
    /\ pc = "done"
    /\ client = "ollama"
    /\ FailedCalls = {1}
    /\ Contains(reply.val, ErrSegHead \o NameAddCap \o ErrSegMid \o ToolErrBoom)

\* C4: in both clients, when the first generation returned a text in which no
\* tool is detected, call_tool is never invoked, no second gateway call is
\* made and the reply is exactly that text.
C4_NoToolNoCall ==
    (response_content.kind = "str" /\ NoToolDetected(response_content.val)) =>
        /\ callLog = <<>>
        /\ gwCalls = 1
        /\ pc = "done"
        /\ handler = "none"
        /\ reply = response_content

C4_Witness ==
    /\ pc = "done"
    /\ client = "ollama"
    /\ Len(tools) = 2
    /\ response_content = PyStr(NameAdd \o ToolRequestMarker)
    /\ reply = response_content
    /\ callLog = <<>>

\* C5: call_tool is only ever invoked with a name of the catalog; in the
\* tagged-line client a parsed TOOL_REQUEST name that equals no catalog name,
\* compared case-insensitively, leads to no invocation and the reply is the
\* first generation's text only.
C5_OnlyCatalogTools ==
    /\ \A i \in 1..Len(callLog) : callLog[i].name \in CatalogNames
    /\ pc \in {"call_tool", "final_gen"} => curTool \in 1..Len(tools)
    /\ ( /\ client = "ollama"
         /\ response_content.kind = "str"
         /\ Truthy(ToolRequestOf[response_content.val].name)
         /\ \A n \in CatalogNames :
                Lower(n) # Lower(ToolRequestOf[response_content.val].name.val) )
       => (callLog = <<>> /\ pc = "done" /\ reply = response_content)

C5_Witness ==
    /\ pc = "done"
    /\ client = "ollama"
    /\ tools # <<>>
    /\ ToolRequestOf[response_content.val].name = PyStr(TxtFiller)
    /\ callLog = <<>>
    /\ reply = response_content

\* C6: once a call_tool invocation has failed during a query, the second
\* (final) gateway call is not made for that query.
C6_NoFinalGenerationAfterToolFailure ==
    FailedCalls # {} => (pc # "final_gen" /\ gwCalls <= 1)

\* C7: during a single process_query call_tool is invoked at most once.
C7_AtMostOneToolCall == Len(callLog) <= 1

\* C8: every process_query run eventually reaches Done and returns a text.
C8_QueryTerminates ==
    (pc \in {"first_gen", "call_tool", "final_gen"})
        ~> (pc = "done" /\ outcome = "returned" /\ reply.kind = "str")

C8_Witness ==
    /\ pc = "done"
    /\ outcome = "returned"
    /\ client = "azure"
    /\ Len(callLog) = 2
    /\ gwCalls = 2
    /\ gwEmpty = 1

\* C9: process_query called without a session returns the not-connected
\* error at once: no gateway call, no call_tool, no change of the client; and
\* the state machine is never entered without a session.
C9_NotConnectedShortCircuit ==
    /\ [](~session => (pc \in {"idle", "done"} /\ gwCalls = 0 /\ callLog = <<>> /\ gpc = "off"))
    /\ [][(pc = "idle" /\ ~session /\ pc' # "idle") =>
              /\ pc' = "done"
              /\ reply' = PyStr(NotConnectedMsg)
              /\ outcome' = "returned"
              /\ handler' = "none"
              /\ UNCHANGED <<client, session, tools, messages, historyVars, gatewayVars>>]_vars

C9_Witness ==
    /\ pc = "done"
    /\ ~session
    /\ reply = PyStr(NotConnectedMsg)
    /\ gwCalls = 0

\* C10: when a gateway call of the query returned the empty-result sentinel,
\* the exception handler of process_query is not entered and the exhausted
\* call contributes no segment to the reply.
C10_SentinelIsSoftFailure ==
    gwEmpty > 0 =>
        /\ handler = "none"
        /\ pc = "done" =>
               reply = PyStr(JoinSegments(SelectSeq(final_text,
                                 LAMBDA s : s # FinalSegment(EmptyResult))))

\* the keys of a dict, and the value stored under a key
DictKeys(d) == { d[i][1] : i \in 1..Len(d) }
DictGet(d, k) == d[CHOOSE i \in 1..Len(d) : d[i][1] = k][2]

\* position of the first "=" of a field, 0 if none
EqualsAt(f) == FirstOf(f, {"="})

\* the (key, value) pairs written on one comma-separated key=value line, read
\* field by field: the text before the first "=" and the text after it
LinePairs(line) ==
    LET fields == Split(Strip(RemoveAll(line, ParametersMarker)), ",")
        pairOf(f) == <<Strip(SubSeq(f, 1, EqualsAt(f) - 1)),
                       Strip(SubSeq(f, EqualsAt(f) + 1, Len(f)))>>
        written == SelectSeq(fields, LAMBDA f : EqualsAt(f) > 1)
    IN  [i \in 1..Len(written) |-> pairOf(written[i])]

\* the pairs written on the PARAMETERS lines of a text, top to bottom
RECURSIVE WrittenPairsFrom(_, _)
WrittenPairsFrom(lines, i) ==
    IF i > Len(lines) THEN <<>>
    ELSE IF StartsWith(Strip(lines[i]), ParametersMarker)
         THEN LinePairs(lines[i]) \o WrittenPairsFrom(lines, i + 1)
         ELSE WrittenPairsFrom(lines, i + 1)

WrittenPairs(text) == WrittenPairsFrom(Split(text, "\n"), 1)

\* the same, tabulated over the texts the backend may return
WrittenPairsOf == [t \in Texts |-> WrittenPairs(t)]

\* the values written for a key, and the last of them
ValuesOf(pairs, k) == { pairs[i][2] : i \in { j \in 1..Len(pairs) : pairs[j][1] = k } }
LastValueOf(pairs, k) ==
    pairs[CHOOSE i \in 1..Len(pairs) :
              pairs[i][1] = k /\ \A j \in (i + 1)..Len(pairs) : pairs[j][1] # k][2]

\* a value that is the text of no number
Uncoercible(v) == ~IsIntLiteral(v) /\ ~IsFloatLiteral(v)

\* C11 as stated: in the parameters passed to call_tool by the tagged-line
\* client, a key whose written value cannot be coerced to a number is absent,
\* and every other key written on the PARAMETERS lines is present.
C11_UncoercibleKeyAbsent ==
    client = "ollama" =>
        \A i \in 1..Len(callLog) :
            LET ps == WrittenPairsOf[response_content.val]
            IN  \A j \in 1..Len(ps) :
                    IF \A v \in ValuesOf(ps, ps[j][1]) : Uncoercible(v)
                    THEN ps[j][1] \notin DictKeys(callLog[i].parameters)
                    ELSE ps[j][1] \in DictKeys(callLog[i].parameters)

\* C11 amended: in the parameters passed to call_tool by the tagged-line
\* client every key written on the PARAMETERS lines is present, and a key
\* whose (last) written value cannot be coerced to a number holds that value,
\* stripped, as a string.
C11_UncoercibleKeyKeptAsString ==
    client = "ollama" =>
        \A i \in 1..Len(callLog) :
            LET ps == WrittenPairsOf[response_content.val]
            IN  \A j \in 1..Len(ps) :
                    /\ ps[j][1] \in DictKeys(callLog[i].parameters)
                    /\ Uncoercible(LastValueOf(ps, ps[j][1])) =>
                           DictGet(callLog[i].parameters, ps[j][1])
                               = PyStr(LastValueOf(ps, ps[j][1]))

C11_Witness ==
    /\ client = "ollama"
    /\ Len(callLog) = 1
    /\ Len(WrittenPairsOf[response_content.val]) = 4
    /\ WrittenPairsOf[response_content.val][1]
           = <<<<"y","e","a","r","s">>, <<"t","h","i","r","t","e","e","n">>>>
    /\ Len(callLog[1].parameters) = 4
    /\ callLog[1].parameters[1]
           = <<<<"y","e","a","r","s">>, PyStr(<<"t","h","i","r","t","e","e","n">>)>>
    /\ callLog[1].parameters[2] = <<<<"p","r","i","n","c","i","p","a","l">>, PyInt(7)>>

\* the parameter mapping of the example of the system's documentation
ExampleParameters ==
    << <<<<"p","r","i","n","c","i","p","a","l">>, PyInt(5000)>>,
       <<<<"a","n","n","u","a","l","_","r","a","t","e">>, PyFloat(6, -2)>>,
       <<<<"c","o","m","p","o","u","n","d","s","_","p","e","r","_","y","e","a","r">>, PyInt(12)>>,
       <<<<"y","e","a","r","s">>, PyInt(13)>> >>

\* C12: in the parameters passed to call_tool by the tagged-line client, the
\* value of each written key is an int when its text holds no decimal point
\* and is the text of an integer, else a float when it holds a decimal point
\* and is the text of a number, else the text itself; the lines
\* "TOOL_REQUEST: compound_interest" and "PARAMETERS: principal=5000,
\* annual_rate=0.06, compounds_per_year=12, years=13" give int 5000,
\* float 0.06, int 12 and int 13.
C12_ValuesCoerced ==
    client = "ollama" =>
        \A i \in 1..Len(callLog) :
            LET ps == WrittenPairsOf[response_content.val]
                d == callLog[i].parameters
            IN  /\ DictKeys(d) = { ps[j][1] : j \in 1..Len(ps) }
                /\ \A k \in DictKeys(d) :
                       LET v == LastValueOf(ps, k)
                       IN  IF ~Contains(v, <<".">>) /\ IsIntLiteral(v)
                           THEN DictGet(d, k) = PyInt(IntValue(v))
                           ELSE IF Contains(v, <<".">>) /\ IsFloatLiteral(v)
                           THEN DictGet(d, k) = FloatValue(v)
                           ELSE DictGet(d, k) = PyStr(v)
                /\ response_content.val = Join(TxtNewline, <<LineRequestCompound, LineParameters>>)
                       => d = ExampleParameters

C12_Witness ==
    /\ client = "ollama"
    /\ response_content = PyStr(Join(TxtNewline, <<LineRequestCompound, LineParameters>>))
    /\ Len(callLog) = 1
    /\ callLog[1].name = NameCompound
    /\ callLog[1].parameters = ExampleParameters

\* the first entry in catalog order whose name occurs in the text, compared
\* case-insensitively (0 when there is none)
FirstNamed(text) ==
    IF \E i \in 1..Len(tools) : Contains(Lower(text), Lower(tools[i].name))
    THEN CHOOSE i \in 1..Len(tools) :
             /\ Contains(Lower(text), Lower(tools[i].name))
             /\ \A j \in 1..(i - 1) : ~Contains(Lower(text), Lower(tools[j].name))
    ELSE 0

\* C13: in the substring client the tool invoked is the first entry in
\* catalog order whose name occurs, compared case-insensitively, in the first
\* generation's text, and it is invoked with an empty parameter set.
C13_FirstNamedToolEmptyParameters ==
    client = "azure" =>
        \A i \in 1..Len(callLog) :
            /\ FirstNamed(response_content.val) # 0
            /\ callLog[i].name = tools[FirstNamed(response_content.val)].name
            /\ callLog[i].parameters = EmptyDict

\* C14: the external operations of a query are strictly ordered and never
\* overlap: the gateway runs only during the two generation steps; call_tool
\* is started only after the first gateway call has returned its text; the
\* second gateway call is started only after a call_tool has completed, with
\* a prompt holding the first call's output and the tool result.
C14_StrictlySequential ==
    /\ [](gpc # "off" => pc \in {"first_gen", "final_gen"})
    /\ [](pc = "first_gen" => (gwCalls = 1 /\ callLog = <<>> /\ Len(messages) = 2))
    /\ [](pc = "call_tool" =>
              /\ gpc = "off"
              /\ gwCalls = 1
              /\ response_content.kind = "str"
              /\ final_text[1] = response_content)
    /\ [](pc = "final_gen" =>
              /\ gwCalls = 2
              /\ callLog # <<>>
              /\ callLog[Len(callLog)].ok
              /\ Len(messages) = 4
              /\ messages[3] = [role |-> "assistant", content |-> response_content]
              /\ \E r \in ToolResults :
                     /\ final_text[Len(final_text)]
                            = PyStr(ToolSegHead \o callLog[Len(callLog)].name \o ToolSegMid
                                        \o r.content)
                     /\ messages[4]
                            = [role |-> "user",
                               content |-> PyStr(ResultHead \o callLog[Len(callLog)].name
                                                     \o ResultMid \o r.content \o ResultTail)])
    /\ [][ /\ (pc' = "first_gen" /\ pc # "first_gen") => pc = "idle"
           /\ (pc' = "call_tool" /\ pc = "first_gen") =>
                  (gpc = "returned" /\ response_content' = gresult)
           /\ (pc' = "call_tool" /\ pc # "first_gen") =>
                  (pc = "call_tool" /\ Len(callLog') = Len(callLog) + 1)
           /\ (pc' = "final_gen" /\ pc # "final_gen") =>
                  (pc = "call_tool" /\ Len(callLog') = Len(callLog) + 1) ]_vars

C14_Witness ==
    /\ pc = "final_gen"
    /\ gpc = "attempt"
    /\ gwCalls = 2
    /\ Len(messages) = 4
    /\ callLog # <<>>
    /\ callLog[Len(callLog)].ok

\* C16: get_gpt_response sleeps the same 2 seconds each time and only between
\* attempts: when the call has returned, the number of sleeps is the number
\* of attempts minus one.
C16_SleepsOnlyBetweenAttempts ==
    client = "azure" =>
        /\ \A i \in 1..Len(sleeps) : sleeps[i] = 2
        /\ gpc = "returned" => Len(sleeps) = Len(glog) - 1

\* C17: in get_gpt_response the attempt with 0-based index i is issued with
\* seed 42 + i: the seeds of one call are pairwise distinct, and the seed
\* sequence of a call is fixed by the number of its attempts alone, so two
\* calls with the same failure pattern use the same seeds.
C17_SeedIsBasePlusIndex ==
    client = "azure" =>
        /\ \A j \in 1..Len(glog) : glog[j].seed = 42 + (j - 1)
        /\ \A j, k \in 1..Len(glog) : j # k => glog[j].seed # glog[k].seed
        /\ [j \in 1..Len(glog) |-> glog[j].seed] \in { <<>>, <<42>>, <<42, 43>>, <<42, 43, 44>> }

C17_Witness ==
    /\ client = "azure"
    /\ pc = "final_gen"
    /\ gpc = "returned"
    /\ [j \in 1..Len(glog) |-> glog[j].seed] = <<42, 43, 44>>
    /\ glog[3].ok

\* the call_tool invocations of this query that returned an error result
ErrorResultCalls == { i \in 1..Len(callLog) : callLog[i].ok /\ callLog[i].isError }

\* C18: when call_tool returns an error result without raising, the reply of
\* the query shows an error segment for that tool and no tool-result segment
\* for it, and the query is not left to the exception handler.
C18_ErrorResultBecomesErrorSegment ==
    \A i \in ErrorResultCalls :
        /\ handler = "none"
        /\ pc = "done" =>
               /\ reply.kind = "str"
               /\ Contains(reply.val, ErrSegHead \o callLog[i].name \o ErrSegMid)
               /\ ~Contains(reply.val, ToolSegHead \o callLog[i].name \o ToolSegMid)

\* C19: call_ollama never propagates a backend failure to process_query: a
\* failed request is retried while fewer than 3 attempts were made, and after
\* 3 failed attempts the call returns the empty-result sentinel.
C19_OllamaGatewayRetries ==
    client = "ollama" =>
        /\ gpc # "raised"
        /\ Len(glog) <= 3
        /\ (glog # <<>> /\ ~glog[Len(glog)].ok /\ Len(glog) < 3) => gpc = "attempt"
        /\ (gpc = "returned" /\ FailedAttempts = 1..Len(glog)) =>
               (Len(glog) = 3 /\ gresult = EmptyResult)

\* what a segment appended to final_text is, told by its head
SegmentKind(s) ==
    IF StartsWith(s.val, ToolSegHead) THEN "tool"
    ELSE IF StartsWith(s.val, ErrSegHead) THEN "error"
    ELSE "final"

\* the kinds of the segments that follow the initial answer
KindsAfterInitial(ft) == [i \in 1..(Len(ft) - 1) |-> SegmentKind(ft[i + 1])]

\* C20: a reply joined at Done is made of the initial model answer first, then
\* at most one tool-result segment, at most one tool error segment and at most
\* one final model answer, in that order.
C20_SegmentOrder ==
    (pc = "done" /\ handler = "none" /\ gwCalls > 0) =>
        /\ final_text # <<>>
        /\ final_text[1] = response_content
        /\ reply = PyStr(JoinSegments(final_text))
        /\ KindsAfterInitial(final_text)
               \in { <<>>, <<"tool">>, <<"error">>, <<"final">>,
                     <<"tool", "error">>, <<"tool", "final">>, <<"error", "final">>,
                     <<"tool", "error", "final">> }

\* a system message renders a catalog: after the fixed head it holds one line
\* "- name: description" for every tool; tabulated over clients and catalogs
RendersCatalog ==
    [cl \in {"azure", "ollama"} |->
        [cat \in Catalogs |->
            /\ StartsWith(SystemMessage(cl, cat), SysHead)
            /\ \A i \in 1..Len(cat) :
                   Contains(SystemMessage(cl, cat),
                            <<"-", " ">> \o cat[i].name \o <<":", " ">> \o cat[i].description)]]

\* the first two messages of a conversation: the system message rendering the
\* catalog, then the user's query
OpensConversation(ms) ==
    /\ Len(ms) >= 2
    /\ ms[1] = [role |-> "system", content |-> PyStr(SystemMessage(client, tools))]
    /\ RendersCatalog[client][tools]
    /\ ms[2].role = "user"
    /\ ms[2].content.kind = "str"
    /\ ms[2].content.val \in Queries

\* C21: the first gateway call receives exactly the system message and the
\* user query; the second gateway call receives exactly four messages: those
\* two, an assistant message holding the first generation's text and a user
\* message embedding the tool result.
C21_ConversationShape ==
    /\ pc = "first_gen" => (Len(messages) = 2 /\ OpensConversation(messages))
    /\ pc = "final_gen" =>
           /\ Len(messages) = 4
           /\ OpensConversation(messages)
           /\ messages[3].role = "assistant"
           /\ messages[3].content = response_content
           /\ response_content = final_text[1]
           /\ messages[4].role = "user"
           /\ \E r \in ToolResults :
                  /\ final_text[Len(final_text)]
                         = ToolSegment(callLog[Len(callLog)].name, r.content)
                  /\ messages[4].content.kind = "str"
                  /\ messages[4].content.val
                         = ResultHead \o callLog[Len(callLog)].name \o ResultMid
                               \o r.content \o ResultTail

C21_Witness ==
    /\ pc = "final_gen"
    /\ client = "ollama"
    /\ Len(tools) = 2
    /\ Len(messages) = 4
    /\ messages[2].content = PyStr(QuerySum)
    /\ messages[3].content = PyStr(Join(TxtNewline, <<LineRequestCompound, LineParameters>>))

\* the positions of final_text that hold what an empty generation left: the
\* empty text or the sentinel at the first position, "\n" or "\n[]" after it
EmptyGenerationAt(ft) ==
    { i \in 1..Len(ft) :
          IF i = 1 THEN ft[i] \in { PyStr(<<>>), EmptyResult }
          ELSE ft[i] \in { FinalSegment(PyStr(<<>>)), FinalSegment(EmptyResult) } }

\* the texts of the other positions, in order
RECURSIVE TextsOutside(_, _, _)
TextsOutside(ft, skip, i) ==
    IF i > Len(ft) THEN <<>>
    ELSE IF i \in skip THEN TextsOutside(ft, skip, i + 1)
    ELSE <<ft[i].val>> \o TextsOutside(ft, skip, i + 1)

\* C22: the reply joined at Done holds nothing for a generation that yielded
\* the empty text or the empty-result sentinel: it is the join of the other
\* segments alone, with no separator added for the empty one.
C22_EmptyGenerationLeavesNoTrace ==
    (pc = "done" /\ handler = "none" /\ gwCalls > 0) =>
        reply = PyStr(Join(<<"\n">>, TextsOutside(final_text, EmptyGenerationAt(final_text), 1)))

\* C23: process_query never changes the session or the tool catalog, which
\* are set by connect_to_server alone; nothing of a query is left when the
\* next one starts, and the first gateway call of every query is entered with
\* exactly its own system prompt and user query.
C23_NoStateAcrossQueries ==
    /\ [][(session' # session \/ tools' # tools) =>
              (~session /\ session' /\ pc = "idle" /\ pc' = "idle")]_vars
    /\ [](pc = "idle" =>
              /\ messages = <<>>
              /\ final_text = <<>>
              /\ response_content = PyNone
              /\ callLog = <<>>
              /\ gwCalls = 0)
    /\ [][(pc = "idle" /\ pc' = "first_gen") =>
              /\ Len(messages') = 2
              /\ messages'[1] = [role |-> "system",
                                 content |-> PyStr(SystemMessage(client, tools'))]
              /\ \E q \in Queries : messages'[2] = [role |-> "user", content |-> PyStr(q)]
              /\ gwCalls' = 1
              /\ callLog' = <<>>]_vars

C23_Witness ==
    /\ pc = "done"
    /\ session
    /\ tools = <<ToolAdd, ToolCompound>>
    /\ FailedCalls = {1}
    /\ Len(callLog) = 2
    /\ Len(messages) = 4

\* the call_tool invocations of this query that returned
ReturnedCalls == { i \in 1..Len(callLog) : callLog[i].ok }

\* C24: during one process_query the gateway is called at most twice, also
\* when a gateway call or a tool invocation raises: once for the first
\* generation, and once more only after a call_tool that returned.
C24_AtMostTwoGatewayCalls ==
    /\ gwCalls <= 2
    /\ gwCalls = 2 => (pc \in {"final_gen", "done"} /\ Cardinality(ReturnedCalls) = 1)
    /\ (pc = "done" /\ ReturnedCalls = {} /\ session) => gwCalls = 1

C24_Witness ==
    /\ client = "ollama"
    /\ pc = "done"
    /\ gwCalls = 2
    /\ ReturnedCalls = {1}
    /\ SegmentKind(final_text[Len(final_text)]) = "error"

\* C25: an error segment for a tool appears in the reply only if a call_tool
\* of that tool failed, and the reply never holds both a tool-result segment
\* and an error segment for the same tool.
C25_ErrorSegmentOnlyForFailedCall ==
    (pc = "done" /\ reply.kind = "str") =>
        \A n \in CatalogNames :
            Contains(reply.val, ErrSegHead \o n \o ErrSegMid) =>
                /\ \E i \in FailedCalls : callLog[i].name = n
                /\ ~Contains(reply.val, ToolSegHead \o n \o ToolSegMid)

\* the name written on the last line of a text that, stripped, starts with the
\* TOOL_REQUEST marker (the empty name when there is no such line); tabulated
\* over the texts the backend may return
LastRequestedName ==
    [t \in Texts |->
        LET lines == Split(t, "\n")
            req == { k \in 1..Len(lines) : StartsWith(Strip(lines[k]), ToolRequestMarker) }
        IN  IF req = {} THEN <<>>
            ELSE Strip(RemoveAll(lines[CHOOSE k \in req : \A j \in req : j <= k],
                                 ToolRequestMarker))]

\* the values the written pairs leave under each key, a later one overriding
\* an earlier one; tabulated over the texts the backend may return
MergedParameters ==
    [t \in Texts |->
        LET ps == WrittenPairs(t)
        IN  [k \in { ps[j][1] : j \in 1..Len(ps) } |-> Coerce(LastValueOf(ps, k))]]

\* C26: the tagged-line client looks up the name of the last TOOL_REQUEST
\* line, invokes the tool under the catalog's spelling of it, and passes the
\* parameters of all the PARAMETERS lines of the text merged, a later value
\* overriding an earlier one for the same key.
C26_LastRequestMergedParameters ==
    client = "ollama" =>
        /\ \A i \in 1..Len(callLog) :
               LET t == response_content.val
               IN  /\ callLog[i].name \in CatalogNames
                   /\ Lower(callLog[i].name) = Lower(LastRequestedName[t])
                   /\ DictKeys(callLog[i].parameters) = DOMAIN MergedParameters[t]
                   /\ \A k \in DOMAIN MergedParameters[t] :
                          DictGet(callLog[i].parameters, k) = MergedParameters[t][k]
        /\ (pc = "done" /\ handler = "none" /\ response_content.kind = "str" /\ callLog = <<>>)
               => \A n \in CatalogNames :
                      Lower(n) # Lower(LastRequestedName[response_content.val])

C26_Witness ==
    /\ client = "ollama"
    /\ tools = <<ToolAdd, ToolCompound>>
    /\ response_content = PyStr(TxtTwoRequests)
    /\ Len(callLog) = 1
    /\ callLog[1].name = NameAdd
    /\ LastRequestedName[TxtTwoRequests] = NameAddCap
    /\ Len(callLog[1].parameters) = 6
    /\ callLog[1].parameters[1] = <<<<"p","r","i","n","c","i","p","a","l">>, PyInt(7)>>
    /\ callLog[1].parameters[2]
           = <<<<"a","n","n","u","a","l","_","r","a","t","e">>, PyFloat(6, -2)>>
    /\ callLog[1].parameters[4]
           = <<<<"y","e","a","r","s">>, PyStr(<<"t","h","i","r","t","e","e","n">>)>>

====
